---- MODULE Spec2Model ----
(***************************************************************************)
(* Lead management: the lead table, the add-lead handlers of the Flask and *)
(* the Streamlit front end, the three update_lead_status functions, and    *)
(* the follow-up scheduling policy.                                        *)
(*                                                                         *)
(* Time is counted in clock ticks, TicksPerSec ticks to the second, so     *)
(* that datetime.now() has a sub-second part and strftime('...%S') drops   *)
(* it.  A lead id "LEAD-<YYYYmmddHHMMSS>" is the pair <<"LEAD", second>>.  *)
(***************************************************************************)
EXTENDS Integers, FiniteSets, Sequences, TLC

\* ---------------------------------------------------------------- bounds
TicksPerSec == 2
MaxClock == 3
MaxLeads == 2
MaxSleepHours == 4

\* ------------------------------------------------------------- constants
SecondsPerHour == 3600
DefaultFollowupHours == 24

Hour == SecondsPerHour * TicksPerSec

LEAD_STATUSES == {"Hot", "Warm", "Cold"}
STATUS_FOLLOWUP_HOURS == [t \in LEAD_STATUSES |->
                            IF t = "Hot" THEN 3 ELSE IF t = "Warm" THEN 24 ELSE 72]

\* option lists of the add-lead forms
SOURCES == {"Smart Financial", "Media Alpha", "Website", "Referral",
            "Social Media", "Email", "Phone", "Other"}
QUOTE_STATUSES == {"Requested", "Sent", "Negotiating", "Accepted", "Declined"}

VARIABLES clock, leads, pc, loc, resp, app_leads

vars == <<clock, leads, pc, loc, resp, app_leads>>

\* concurrent callers of update_lead_status
Workers == {1, 2}

\* ------------------------------------------------------ time and strings
\* datetime.strftime('%Y-%m-%d %H:%M:%S'): the text names a whole second
strftime(t) == t \div TicksPerSec

\* datetime.strptime(s, '%Y-%m-%d %H:%M:%S'): the start of that second
strptime(s) == s * TicksPerSec

\* faulty variant: the id carries the sub-second part ('%Y%m%d%H%M%S%f')
generate_lead_id_subsecond(now) == <<"LEAD", now>>

\* f"LEAD-{datetime.now().strftime('%Y%m%d%H%M%S')}"
generate_lead_id(now) == <<"LEAD", now \div TicksPerSec>>

\* faulty variant: the lookup without its default
FollowupHoursNoDefault(lead_status) ==
    IF lead_status \in DOMAIN STATUS_FOLLOWUP_HOURS
    THEN STATUS_FOLLOWUP_HOURS[lead_status]
    ELSE 0

\* faulty variant: the default whatever the temperature
FollowupHoursAlwaysDefault(lead_status) == DefaultFollowupHours

\* dict.get(key, default) on STATUS_FOLLOWUP_HOURS
FollowupHours(lead_status) ==
    IF lead_status \in DOMAIN STATUS_FOLLOWUP_HOURS
    THEN STATUS_FOLLOWUP_HOURS[lead_status]
    ELSE DefaultFollowupHours

\* faulty variant: the offset subtracted
calculate_next_followup_before(now, lead_status) ==
    now - FollowupHours(lead_status) * Hour

\* datetime.now() + timedelta(hours=hours); now is the clock value it reads
calculate_next_followup(now, lead_status) ==
    now + FollowupHours(lead_status) * Hour

\* float(text) of the Flask handler: <<v>> for a number, <<>> for ValueError
float(text) ==
    IF text = "100" THEN <<100>>
    ELSE IF text = "-5" THEN <<-5>>
    ELSE <<>>

\* ----------------------------------------------------------------- store
Ids(store) == {l.id : l \in store}

\* faulty variant: a table without the primary key
InsertNoPrimaryKey(store, row, storeOk) ==
    IF ~storeOk
    THEN [leads |-> store, ret |-> "False", err |-> "OperationalError"]
    ELSE [leads |-> store \cup {row}, ret |-> "True", err |-> ""]

\* faulty variant: the except branch without session.rollback(), the pending
\* row reaches the table with a later flush
InsertNoRollback(store, row, storeOk) ==
    IF row.id \in Ids(store)
    THEN [leads |-> store, ret |-> "False", err |-> "IntegrityError"]
    ELSE IF ~storeOk
    THEN [leads |-> store \cup {row}, ret |-> "False", err |-> "OperationalError"]
    ELSE [leads |-> store \cup {row}, ret |-> "True", err |-> ""]

\* session.add(new_lead); session.commit() on a table whose id column is the
\* primary key; storeOk = FALSE is a store that raises for any other reason
Insert(store, row, storeOk) ==
    IF ~storeOk
    THEN [leads |-> store, ret |-> "False", err |-> "OperationalError"]
    ELSE IF row.id \in Ids(store)
    THEN [leads |-> store, ret |-> "False", err |-> "IntegrityError"]
    ELSE [leads |-> store \cup {row}, ret |-> "True", err |-> ""]

\* flask_app.save_lead: created_at and next_followup arrive as text
flask_save_lead(store, lead_data, storeOk) ==
    Insert(store,
           [id |-> lead_data.id,
            name |-> lead_data.name,
            source |-> lead_data.source,
            contact_method |-> lead_data.contact_method,
            quote_status |-> lead_data.quote_status,
            lead_status |-> lead_data.lead_status,
            quoted_price |-> lead_data.quoted_price,
            created_at |-> strptime(lead_data.created_at),
            next_followup |-> strptime(lead_data.next_followup),
            status |-> lead_data.status],
           storeOk)

\* app.save_lead: created_at and next_followup arrive as datetimes
app_save_lead(store, lead_data, storeOk) ==
    Insert(store,
           [id |-> lead_data.id,
            name |-> lead_data.name,
            source |-> lead_data.source,
            contact_method |-> lead_data.contact_method,
            quote_status |-> lead_data.quote_status,
            lead_status |-> lead_data.lead_status,
            quoted_price |-> lead_data.quoted_price,
            created_at |-> lead_data.created_at,
            next_followup |-> lead_data.next_followup,
            status |-> lead_data.status],
           storeOk)

\* ---------------------------------------------------------------- inputs
BaseForm == [name |-> "Ann", source |-> "Media Alpha", contact_method |-> "Phone",
             quote_status |-> "Requested", lead_status |-> "Hot",
             quoted_price |-> "100"]

\* what a POST /add-lead can carry: any text in any field
FlaskForms ==
    {[BaseForm EXCEPT !.lead_status = t] : t \in {"Hot", "Warm", "Cold", "Tepid", ""}}
    \cup {[BaseForm EXCEPT !.name = ""],
          [BaseForm EXCEPT !.source = "Billboard"],
          [BaseForm EXCEPT !.quote_status = ""],
          [BaseForm EXCEPT !.quoted_price = "-5"],
          [BaseForm EXCEPT !.quoted_price = "abc"],
          [BaseForm EXCEPT !.quoted_price = ""]}

\* what the Streamlit widgets can return: text inputs any text, select boxes
\* one of their options ("" is the first option), the number input None or >= 0
StreamlitForms ==
    {[BaseForm EXCEPT !.lead_status = t, !.quoted_price = <<100>>] :
        t \in {"Hot", "Warm", "Cold", ""}}
    \cup {[BaseForm EXCEPT !.name = "", !.quoted_price = <<>>],
          [BaseForm EXCEPT !.source = "Other", !.quoted_price = <<>>]}

\* the forms of the status-transition specification
FlaskLifecycleForms == {BaseForm}
StreamlitLifecycleForms == {[BaseForm EXCEPT !.quoted_price = <<100>>]}

\* the clock may advance by this much between two reads inside one handler
Delays == 0..1

NoLoc == [fe |-> "", id |-> <<>>, new_status |-> "", seen |-> ""]
NoResp == [op |-> "none", fe |-> "", id |-> <<>>, ret |-> "", out |-> "", err |-> ""]

Init ==
    /\ clock = 0
    /\ leads = {}
    /\ pc = [w \in Workers |-> "idle"]
    /\ loc = [w \in Workers |-> NoLoc]
    /\ resp = NoResp
    /\ app_leads = {}

\* --------------------------------------------------------------- actions
\* time passes between requests
Tick ==
    /\ clock < MaxClock
    /\ clock' = clock + 1
    /\ UNCHANGED <<leads, pc, loc, resp, app_leads>>

\* the lead_data dict of flask_app.create_lead, the first clock read being now
flask_lead_data(form, now, d1, d2) ==
    LET now_str == strftime(now)
        next_followup == calculate_next_followup(now + d1, form.lead_status)
        next_followup_str == strftime(next_followup)
        quoted_price == IF form.quoted_price # "" THEN float(form.quoted_price) ELSE <<>>
    IN  [id |-> generate_lead_id(now + d1 + d2),
         name |-> form.name,
         source |-> form.source,
         contact_method |-> form.contact_method,
         quote_status |-> form.quote_status,
         lead_status |-> form.lead_status,
         quoted_price |-> quoted_price,
         created_at |-> now_str,
         next_followup |-> next_followup_str,
         status |-> "Active"]

\* the lead_data dict of app.display_add_lead_form
app_lead_data(form, now, d1, d2) ==
    LET next_followup == calculate_next_followup(now + d1, form.lead_status)
    IN  [id |-> generate_lead_id(now + d1 + d2),
         name |-> form.name,
         source |-> form.source,
         contact_method |-> form.contact_method,
         quote_status |-> form.quote_status,
         lead_status |-> form.lead_status,
         quoted_price |-> form.quoted_price,
         created_at |-> now,
         next_followup |-> next_followup,
         status |-> "Active"]

\* "if not name or not source or ..." of app.display_add_lead_form
MissingField(form) ==
    form.name = "" \/ form.source = "" \/ form.contact_method = ""
       \/ form.quote_status = "" \/ form.lead_status = ""

\* flask_app.create_lead (POST /add-lead).  The handler reads the clock three
\* times: for created_at, inside calculate_next_followup, inside
\* generate_lead_id; d1 and d2 are the time that passes between the reads.
create_lead(form, d1, d2, storeOk) ==
    LET lead_data == flask_lead_data(form, clock, d1, d2)
        saved == flask_save_lead(leads, lead_data, storeOk)
    IN  /\ clock + d1 + d2 <= MaxClock
        /\ Cardinality(leads) < MaxLeads
        /\ clock' = clock + d1 + d2
        /\ leads' = saved.leads
        /\ resp' = [op |-> "create", fe |-> "flask", id |-> lead_data.id,
                    ret |-> saved.ret, out |-> "303 /", err |-> saved.err]
        /\ UNCHANGED <<pc, loc, app_leads>>

\* app.display_add_lead_form, the submitted branch
display_add_lead_form(form, d1, d2, storeOk) ==
    IF MissingField(form)
    THEN /\ d1 = 0 /\ d2 = 0 /\ storeOk
         /\ resp' = [op |-> "create", fe |-> "streamlit", id |-> <<>>,
                     ret |-> "", out |-> "Please fill in all required fields",
                     err |-> ""]
         /\ UNCHANGED <<clock, leads, pc, loc, app_leads>>
    ELSE LET lead_data == app_lead_data(form, clock, d1, d2)
             saved == app_save_lead(leads, lead_data, storeOk)
         IN  /\ clock + d1 + d2 <= MaxClock
             /\ Cardinality(leads) < MaxLeads
             /\ clock' = clock + d1 + d2
             /\ leads' = saved.leads
             /\ resp' = [op |-> "create", fe |-> "streamlit", id |-> lead_data.id,
                         ret |-> saved.ret,
                         out |-> IF saved.ret = "True"
                                 THEN "Lead added successfully!"
                                 ELSE "Error adding lead. Please try again.",
                         err |-> saved.err]
             /\ UNCHANGED <<pc, loc, app_leads>>

NextCreate ==
    \/ Tick
    \/ \E form \in FlaskForms, d1 \in Delays, d2 \in Delays, storeOk \in BOOLEAN :
          create_lead(form, d1, d2, storeOk)
    \/ \E form \in StreamlitForms, d1 \in Delays, d2 \in Delays, storeOk \in BOOLEAN :
          display_add_lead_form(form, d1, d2, storeOk)

SpecCreate == Init /\ [][NextCreate]_vars

\* ------------------------------------------------------- status updates
\* new_status as each caller can pass it: the Flask route takes it from the
\* URL, the Streamlit page and the API handler are driven by the Mark Closed
\* and Mark Lost links
Targets(fe) ==
    IF fe = "flask" THEN {"Closed", "Lost", "Active", "Archived"}
    ELSE {"Closed", "Lost"}

\* ids a caller may name: every id the clock can produce, stored or not
LeadIds == {generate_lead_id(t) : t \in 0..MaxClock}

\* faulty variant: no "if lead:" branch, an unknown id is answered as done
UpdateRetAbsentOk(fe, kind) ==
    IF fe = "handlers"
    THEN (IF kind \in {"ok", "absent"} THEN "{success: True}"
          ELSE "{success: False, error: exception}")
    ELSE (IF kind \in {"ok", "absent"} THEN "True" ELSE "False")

\* the value update_lead_status returns
UpdateRet(fe, kind) ==
    IF fe = "handlers"
    THEN (IF kind = "ok" THEN "{success: True}"
          ELSE IF kind = "absent" THEN "{success: False, error: Lead not found}"
          ELSE "{success: False, error: exception}")
    ELSE (IF kind = "ok" THEN "True" ELSE "False")

\* what the caller of the front end receives: update_lead_status_route drops
\* the result and redirects, the other two hand the result back
UpdateOut(fe, ret) == IF fe = "flask" THEN "303 /" ELSE ret

UpdateResp(fe, lead_id, kind) ==
    [op |-> "update", fe |-> fe, id |-> lead_id, ret |-> UpdateRet(fe, kind),
     out |-> UpdateOut(fe, UpdateRet(fe, kind)),
     err |-> IF kind = "raised" THEN "OperationalError" ELSE ""]

\* faulty variant: the UPDATE without its WHERE clause
WriteStatusAllRows(store, lead_id, seen, new_status) ==
    IF new_status = seen
    THEN store
    ELSE {[l EXCEPT !.status = new_status] : l \in store}

\* UPDATE leads SET status = ... WHERE id = ...; the unit of work emits it
\* only when the attribute differs from the value it loaded
WriteStatus(store, lead_id, seen, new_status) ==
    IF new_status = seen
    THEN store
    ELSE {IF l.id = lead_id THEN [l EXCEPT !.status = new_status] ELSE l : l \in store}

\* update_lead_status up to the query: Lead.query.filter_by(id=lead_id).first()
UpdateQuery(w, fe, lead_id, new_status, storeOk) ==
    /\ pc[w] = "idle"
    /\ IF ~storeOk
       THEN /\ resp' = UpdateResp(fe, lead_id, "raised")
            /\ UNCHANGED <<pc, loc>>
       ELSE IF lead_id \in Ids(leads)
       THEN LET lead == CHOOSE l \in leads : l.id = lead_id
            IN  /\ pc' = [pc EXCEPT ![w] = "found"]
                /\ loc' = [loc EXCEPT ![w] = [fe |-> fe, id |-> lead_id,
                                              new_status |-> new_status,
                                              seen |-> lead.status]]
                /\ resp' = resp
       ELSE /\ resp' = UpdateResp(fe, lead_id, "absent")
            /\ UNCHANGED <<pc, loc>>
    /\ UNCHANGED <<clock, leads, app_leads>>

\* update_lead_status from "lead.status = new_status" on: commit, or the
\* except branch with its rollback
UpdateCommit(w, storeOk) ==
    /\ pc[w] = "found"
    /\ leads' = IF storeOk
                THEN WriteStatus(leads, loc[w].id, loc[w].seen, loc[w].new_status)
                ELSE leads
    /\ resp' = UpdateResp(loc[w].fe, loc[w].id, IF storeOk THEN "ok" ELSE "raised")
    /\ pc' = [pc EXCEPT ![w] = "idle"]
    /\ loc' = [loc EXCEPT ![w] = NoLoc]
    /\ UNCHANGED <<clock, app_leads>>

\* the Flask program: add-lead and update-status requests on one lead table
NextFlask ==
    \/ Tick
    \/ \E form \in FlaskLifecycleForms, d1 \in Delays, d2 \in Delays, storeOk \in BOOLEAN :
          create_lead(form, d1, d2, storeOk)
    \/ \E w \in Workers, lead_id \in LeadIds, storeOk \in BOOLEAN :
          \E new_status \in Targets("flask") :
             UpdateQuery(w, "flask", lead_id, new_status, storeOk)
    \/ \E w \in Workers, storeOk \in BOOLEAN : UpdateCommit(w, storeOk)

SpecFlask == Init /\ [][NextFlask]_vars

\* the Streamlit program with its API handler
NextStreamlit ==
    \/ Tick
    \/ \E form \in StreamlitLifecycleForms, d1 \in Delays, d2 \in Delays,
          storeOk \in BOOLEAN :
          display_add_lead_form(form, d1, d2, storeOk)
    \/ \E w \in Workers, fe \in {"streamlit", "handlers"}, lead_id \in LeadIds,
          storeOk \in BOOLEAN :
          \E new_status \in Targets(fe) :
             UpdateQuery(w, fe, lead_id, new_status, storeOk)
    \/ \E w \in Workers, storeOk \in BOOLEAN : UpdateCommit(w, storeOk)

SpecStreamlit == Init /\ [][NextStreamlit]_vars

\* a direct call of calculate_next_followup: it reads the clock and returns
CalcFollowup(lead_status) ==
    /\ resp' = [op |-> "calc", lead_status |-> lead_status, now |-> clock,
                value |-> calculate_next_followup(clock, lead_status)]
    /\ UNCHANGED <<clock, leads, pc, loc, app_leads>>

Temperatures == {"Hot", "Warm", "Cold", "", "Tepid", "hot"}

\* the scheduling policy called on its own, next to leads being added
NextCalc ==
    \/ Tick
    \/ \E lead_status \in Temperatures : CalcFollowup(lead_status)
    \/ \E form \in StreamlitLifecycleForms, d1 \in Delays, d2 \in Delays :
          display_add_lead_form(form, d1, d2, TRUE)

SpecCalc == Init /\ [][NextCalc]_vars

\* ------------------------------------------------------------- reports
\* hours go by without a request
Sleep ==
    /\ clock + 2 * Hour <= MaxClock + MaxSleepHours * Hour
    /\ clock' = clock + 2 * Hour
    /\ UNCHANGED <<leads, pc, loc, resp, app_leads>>

\* the dict each front end builds from a row: flask_app formats both
\* timestamps with strftime, app hands the datetimes on
lead_dict(fe, lead) ==
    IF fe = "flask"
    THEN [lead EXCEPT !.created_at = strftime(lead.created_at),
                      !.next_followup = strftime(lead.next_followup)]
    ELSE lead

\* faulty variant: the query without its status filter
FollowupQueryAnyStatus(store, now) ==
    {l \in store : l.next_followup <= now}

\* query(Lead).filter_by(status='Active').filter(Lead.next_followup <= now).all()
FollowupQuery(store, now) ==
    {l \in store : l.status = "Active" /\ l.next_followup <= now}

\* get_followup_leads of either front end; a store that raises gives []
get_followup_leads(fe, storeOk) ==
    /\ resp' = IF storeOk
               THEN [op |-> "followup", fe |-> fe, now |-> clock,
                     result |-> {lead_dict(fe, l) : l \in FollowupQuery(leads, clock)},
                     err |-> ""]
               ELSE [op |-> "followup", fe |-> fe, now |-> clock,
                     result |-> {}, err |-> "OperationalError"]
    /\ UNCHANGED <<clock, leads, pc, loc, app_leads>>

\* get_all_leads of either front end; a store that raises gives []
get_all_leads(fe, storeOk) ==
    /\ resp' = IF storeOk
               THEN [op |-> "all_leads", fe |-> fe,
                     result |-> {lead_dict(fe, l) : l \in leads}, err |-> ""]
               ELSE [op |-> "all_leads", fe |-> fe, result |-> {},
                     err |-> "OperationalError"]
    /\ UNCHANGED <<clock, leads, pc, loc, app_leads>>

\* the calendar: a day is 24 hours and the clock's zero is 23:59:59.0, so
\* that midnight falls inside the modelled ticks
Day == 24 * Hour
TimeOfDayAtZero == Day - TicksPerSec
DayOf(t) == (t + TimeOfDayAtZero) \div Day

\* datetime(d.year, d.month, d.day, 0, 0, 0)
day_start(d) == DayOf(d) * Day - TimeOfDayAtZero

\* datetime(d.year, d.month, d.day, 23, 59, 59)
day_end(d) == day_start(d) + Day - TicksPerSec

\* query(func.count(Lead.id)).filter(created_at >= start, created_at <= end)
CountCreatedBetween(store, start, end) ==
    Cardinality({l \in store : l.created_at >= start /\ l.created_at <= end})

\* query(Lead.status, func.count(Lead.id)).group_by(Lead.status) as a dict
status_counts(store) ==
    [v \in {l.status : l \in store} |-> Cardinality({l \in store : l.status = v})]

lead_status_counts(store) ==
    [v \in {l.lead_status : l \in store} |->
        Cardinality({l \in store : l.lead_status = v})]

\* app.get_lead_counts; a store that raises gives zeros and empty dicts
get_lead_counts(storeOk) ==
    LET today == clock
        yesterday == today - Day
    IN  /\ resp' = IF storeOk
                   THEN [op |-> "counts", fe |-> "streamlit", now |-> today,
                         today_count |->
                            CountCreatedBetween(leads, day_start(today), day_end(today)),
                         yesterday_count |->
                            CountCreatedBetween(leads, day_start(yesterday),
                                                day_end(yesterday)),
                         status_counts |-> status_counts(leads),
                         lead_status_counts |-> lead_status_counts(leads),
                         err |-> ""]
                   ELSE [op |-> "counts", fe |-> "streamlit", now |-> today,
                         today_count |-> 0, yesterday_count |-> 0,
                         status_counts |-> [v \in {} |-> 0],
                         lead_status_counts |-> [v \in {} |-> 0],
                         err |-> "OperationalError"]
        /\ UNCHANGED <<clock, leads, pc, loc, app_leads>>

ReadFrontEnds == {"flask", "streamlit"}

\* one caller at a time: leads are added, closed or lost, hours go by, and the
\* follow-up list, the lead list and the counts are read
NextDue ==
    \/ Tick
    \/ Sleep
    \/ \E form \in StreamlitLifecycleForms, d1 \in Delays, d2 \in Delays :
          display_add_lead_form(form, d1, d2, TRUE)
    \/ \E lead_id \in LeadIds, new_status \in Targets("streamlit") :
          UpdateQuery(1, "streamlit", lead_id, new_status, TRUE)
    \/ UpdateCommit(1, TRUE)
    \/ \E fe \in ReadFrontEnds, storeOk \in BOOLEAN : get_followup_leads(fe, storeOk)
    \/ \E fe \in ReadFrontEnds, storeOk \in BOOLEAN : get_all_leads(fe, storeOk)
    \/ \E storeOk \in BOOLEAN : get_lead_counts(storeOk)

SpecDue == Init /\ [][NextDue]_vars

\* ---------------------------------------------------------- close ratio
\* calculate_close_ratio(source=None): None, like the empty text, fails
\* the test "if source:"
NoSource == ""

\* query(func.count(Lead.id)).filter_by(source=source), or all rows
TotalQuery(store, source) ==
    IF source # NoSource THEN {l \in store : l.source = source} ELSE store

\* faulty variant: the closed count without the source filter
ClosedQueryAnySource(store, source) ==
    {l \in store : l.status = "Closed"}

\* query(func.count(Lead.id)).filter_by(source=source, status='Closed')
ClosedQuery(store, source) ==
    IF source # NoSource
    THEN {l \in store : l.source = source /\ l.status = "Closed"}
    ELSE {l \in store : l.status = "Closed"}

\* the number (closed_count / total_count) * 100 as the fraction num / den;
\* 0 when total_count is 0
Ratio(closed_count, total_count) ==
    IF total_count = 0
    THEN [num |-> 0, den |-> 1]
    ELSE [num |-> closed_count * 100, den |-> total_count]

\* calculate_close_ratio on a store no one else writes meanwhile; a store
\* that raises gives 0
calculate_close_ratio(store, source, storeOk) ==
    IF storeOk
    THEN Ratio(Cardinality(ClosedQuery(store, source)),
               Cardinality(TotalQuery(store, source)))
    ELSE [num |-> 0, den |-> 1]

CloseRatio(source, storeOk) ==
    /\ resp' = [op |-> "ratio", source |-> source,
                value |-> calculate_close_ratio(leads, source, storeOk),
                err |-> IF storeOk THEN "" ELSE "OperationalError"]
    /\ UNCHANGED <<clock, leads, pc, loc, app_leads>>

\* get_source_close_ratios: four calls of calculate_close_ratio
get_source_close_ratios(storeOk) ==
    /\ resp' = [op |-> "ratios",
                overall |-> calculate_close_ratio(leads, NoSource, storeOk),
                media_alpha |-> calculate_close_ratio(leads, "Media Alpha", storeOk),
                smart_financial |->
                    calculate_close_ratio(leads, "Smart Financial", storeOk),
                other |-> calculate_close_ratio(leads, "Other", storeOk),
                err |-> IF storeOk THEN "" ELSE "OperationalError"]
    /\ UNCHANGED <<clock, leads, pc, loc, app_leads>>

RatioForms ==
    {[BaseForm EXCEPT !.source = src, !.quoted_price = <<100>>] :
        src \in {"Media Alpha", "Website", "Other"}}

RatioSources == {NoSource, "Media Alpha", "Smart Financial", "Website", "Other"}

\* one caller at a time: leads of several sources are added, closed or lost,
\* and the close ratios are read
NextRatio ==
    \/ Tick
    \/ \E form \in RatioForms : display_add_lead_form(form, 0, 0, TRUE)
    \/ \E lead_id \in LeadIds, new_status \in Targets("streamlit") :
          UpdateQuery(1, "streamlit", lead_id, new_status, TRUE)
    \/ UpdateCommit(1, TRUE)
    \/ \E source \in RatioSources, storeOk \in BOOLEAN : CloseRatio(source, storeOk)
    \/ \E storeOk \in BOOLEAN : get_source_close_ratios(storeOk)

SpecRatio == Init /\ [][NextRatio]_vars

\* ------------------------------------- close ratio next to other callers
\* calculate_close_ratio up to its first count query.  Each count is a
\* statement of its own, so other callers' commits can fall between the two;
\* flask_app returns 0 on an empty total before it counts the closed leads.
RatioTotal(w, fe, source, storeOk) ==
    /\ pc[w] = "idle"
    /\ IF ~storeOk
       THEN /\ resp' = [op |-> "ratio", source |-> source,
                        value |-> Ratio(0, 0), err |-> "OperationalError"]
            /\ UNCHANGED <<pc, loc>>
       ELSE IF fe = "flask" /\ TotalQuery(leads, source) = {}
       THEN /\ resp' = [op |-> "ratio", source |-> source,
                        value |-> Ratio(0, 0), err |-> ""]
            /\ UNCHANGED <<pc, loc>>
       ELSE /\ pc' = [pc EXCEPT ![w] = "counted"]
            /\ loc' = [loc EXCEPT ![w] =
                          [fe |-> fe, source |-> source,
                           total_count |-> Cardinality(TotalQuery(leads, source))]]
            /\ resp' = resp
    /\ UNCHANGED <<clock, leads, app_leads>>

\* calculate_close_ratio from its second count query on
RatioClosed(w, storeOk) ==
    /\ pc[w] = "counted"
    /\ resp' = IF storeOk
               THEN [op |-> "ratio", source |-> loc[w].source,
                     value |-> Ratio(Cardinality(ClosedQuery(leads, loc[w].source)),
                                     loc[w].total_count),
                     err |-> ""]
               ELSE [op |-> "ratio", source |-> loc[w].source,
                     value |-> Ratio(0, 0), err |-> "OperationalError"]
    /\ pc' = [pc EXCEPT ![w] = "idle"]
    /\ loc' = [loc EXCEPT ![w] = NoLoc]
    /\ UNCHANGED <<clock, leads, app_leads>>

\* caller 2 reads close ratios while caller 1 adds and closes leads
NextRatioRace ==
    \/ Tick
    \/ \E form \in RatioForms : display_add_lead_form(form, 0, 0, TRUE)
    \/ \E lead_id \in LeadIds, new_status \in Targets("streamlit") :
          UpdateQuery(1, "streamlit", lead_id, new_status, TRUE)
    \/ UpdateCommit(1, TRUE)
    \/ \E fe \in ReadFrontEnds, source \in {NoSource, "Media Alpha"},
          storeOk \in BOOLEAN : RatioTotal(2, fe, source, storeOk)
    \/ \E storeOk \in BOOLEAN : RatioClosed(2, storeOk)

SpecRatioRace == Init /\ [][NextRatioRace]_vars

\* ------------------------------------------------- the two front ends
\* update_lead_status with one caller at a time: query and commit
update_lead_status(store, lead_id, new_status, storeOk) ==
    IF ~storeOk
    THEN [leads |-> store, kind |-> "raised"]
    ELSE IF lead_id \in Ids(store)
    THEN [leads |-> WriteStatus(store, lead_id,
                                (CHOOSE l \in store : l.id = lead_id).status,
                                new_status),
          kind |-> "ok"]
    ELSE [leads |-> store, kind |-> "absent"]

\* what a user can enter in the add-lead form of either front end
BothForms ==
    {BaseForm,
     [BaseForm EXCEPT !.name = ""],
     [BaseForm EXCEPT !.lead_status = "Cold"],
     [BaseForm EXCEPT !.quoted_price = ""]}

\* the same entries as the Streamlit widgets hand them over: the number
\* input holds a number or None
AsWidgets(form) ==
    [form EXCEPT !.quoted_price = IF form.quoted_price = "" THEN <<>>
                                  ELSE float(form.quoted_price)]

\* one add-lead request given to both programs, each on its own table, with
\* the same clock readings and the same store behaviour
BothCreate(form, d1, d2, storeOk) ==
    LET flask == flask_save_lead(leads, flask_lead_data(form, clock, d1, d2), storeOk)
        widgets == AsWidgets(form)
        streamlit == IF MissingField(widgets)
                     THEN [leads |-> app_leads, ret |-> "", err |-> ""]
                     ELSE app_save_lead(app_leads,
                                        app_lead_data(widgets, clock, d1, d2),
                                        storeOk)
    IN  /\ clock + d1 + d2 <= MaxClock
        /\ Cardinality(leads) < MaxLeads
        /\ Cardinality(app_leads) < MaxLeads
        /\ clock' = clock + d1 + d2
        /\ leads' = flask.leads
        /\ app_leads' = streamlit.leads
        /\ resp' = [op |-> "both", request |-> "create",
                    flask |-> flask.ret, streamlit |-> streamlit.ret]
        /\ UNCHANGED <<pc, loc>>

\* one update-status request given to both programs
BothUpdate(lead_id, new_status, storeOk) ==
    LET flask == update_lead_status(leads, lead_id, new_status, storeOk)
        streamlit == update_lead_status(app_leads, lead_id, new_status, storeOk)
    IN  /\ leads' = flask.leads
        /\ app_leads' = streamlit.leads
        /\ resp' = [op |-> "both", request |-> "update",
                    flask |-> UpdateRet("flask", flask.kind),
                    streamlit |-> UpdateRet("streamlit", streamlit.kind)]
        /\ UNCHANGED <<clock, pc, loc>>

NextBoth ==
    \/ Tick
    \/ \E form \in BothForms, d1 \in Delays, d2 \in Delays, storeOk \in BOOLEAN :
          BothCreate(form, d1, d2, storeOk)
    \/ \E lead_id \in LeadIds, new_status \in Targets("streamlit"), storeOk \in BOOLEAN :
          BothUpdate(lead_id, new_status, storeOk)

SpecBoth == Init /\ [][NextBoth]_vars

\* ------------------------------------------------------------ reminders
\* the orders in which a query without ORDER BY can return the rows rows
RowOrders(rows) ==
    {order \in [1..Cardinality(rows) -> rows] :
        \A i \in 1..Cardinality(rows) : \A j \in 1..Cardinality(rows) :
            i # j => order[i] # order[j]}

\* one line of the reminder: "- name (lead_status): Follow up due at next_followup"
ReminderLine(lead) ==
    [name |-> lead.name, lead_status |-> lead.lead_status,
     next_followup |-> lead.next_followup]

\* faulty variant: the loop left after its first round
ReminderLinesFirstOnly(leads_to_followup) ==
    [i \in 1..(IF Len(leads_to_followup) > 0 THEN 1 ELSE 0) |->
        ReminderLine(leads_to_followup[i])]

\* the lines the for loop appends, in the order of the list
ReminderLines(leads_to_followup) ==
    [i \in 1..Len(leads_to_followup) |-> ReminderLine(leads_to_followup[i])]

\* the text send_followup_reminders logs: its first line and the lead lines
reminder_message(leads_to_followup) ==
    IF leads_to_followup # <<>>
    THEN [head |-> "Reminder: Follow up with these leads:",
          lines |-> ReminderLines(leads_to_followup)]
    ELSE [head |-> "No leads need follow-up at this time.", lines |-> <<>>]

\* flask_app.send_followup_reminders: get_followup_leads, then the message
send_followup_reminders(storeOk) ==
    /\ \E order \in RowOrders(FollowupQuery(leads, clock)) :
          LET leads_to_followup ==
                  IF storeOk
                  THEN [i \in 1..Len(order) |-> lead_dict("flask", order[i])]
                  ELSE <<>>
          IN  resp' = [op |-> "reminder", now |-> clock,
                       due |-> leads_to_followup,
                       message |-> reminder_message(leads_to_followup),
                       err |-> IF storeOk THEN "" ELSE "OperationalError"]
    /\ UNCHANGED <<clock, leads, pc, loc, app_leads>>

ReminderForms ==
    {BaseForm,
     [BaseForm EXCEPT !.name = "Bob"],
     [BaseForm EXCEPT !.name = "Cy", !.lead_status = "Cold"]}

\* the Flask program with its reminder job, one caller at a time
NextReminder ==
    \/ Tick
    \/ Sleep
    \/ \E form \in ReminderForms : create_lead(form, 0, 0, TRUE)
    \/ \E lead_id \in LeadIds, new_status \in Targets("streamlit") :
          UpdateQuery(1, "flask", lead_id, new_status, TRUE)
    \/ UpdateCommit(1, TRUE)
    \/ \E storeOk \in BOOLEAN : send_followup_reminders(storeOk)

SpecReminder == Init /\ [][NextReminder]_vars

\* ================================================================ claims
STATUSES == {"Active", "Closed", "Lost"}
TERMINAL == {"Closed", "Lost"}

\* the offsets of the scheduling policy as the specification words them
PolicyHours(temperature) ==
    CASE temperature = "Hot" -> 3
      [] temperature = "Warm" -> 24
      [] temperature = "Cold" -> 72
      [] OTHER -> 24

PolicyOffset(temperature) == PolicyHours(temperature) * SecondsPerHour * TicksPerSec

\* return values of update_lead_status that report success
SuccessRets == {"True", "{success: True}"}

\* worker w completes its update_lead_status call in this step
Commits(w) == pc[w] = "found" /\ pc'[w] = "idle"

StatusOf(store, lead_id) == (CHOOSE l \in store : l.id = lead_id).status

\* C1: the only status changes a lead undergoes are Active -> Closed and
\* Active -> Lost; a Closed or Lost lead keeps its status for ever.
C1_OnlyActiveToTerminal ==
    [][\A l \in leads : \A m \in leads' :
          (m.id = l.id /\ m.status # l.status)
             => (l.status = "Active" /\ m.status \in TERMINAL)]_vars

\* C2: update_lead_status on a stored lead that it finds not Active returns a
\* failure, never a success, whichever target is asked for.
C2_NonActiveTransitionFails ==
    [][\A w \in Workers :
          (Commits(w) /\ loc[w].seen # "Active") => resp'.ret \notin SuccessRets]_vars

\* C3: every stored status is Active, Closed or Lost, and no step sets a
\* status back to Active.
C3_StatusInEnum ==
    /\ [](\A l \in leads : l.status \in STATUSES)
    /\ [][\A l \in leads : \A m \in leads' :
             (m.id = l.id /\ m.status = "Active") => l.status = "Active"]_vars

\* C4: of two overlapping update_lead_status calls that both read the lead as
\* Active, the one that commits second reports a failure and leaves the status
\* the first one wrote.
C4_LoserDoesNotOverwrite ==
    [][\A w \in Workers :
          (Commits(w) /\ loc[w].seen = "Active"
              /\ StatusOf(leads, loc[w].id) # "Active")
             => (resp'.ret \notin SuccessRets /\ leads' = leads)]_vars

\* C5: every lead the add-lead handlers persist is stored Active with
\* created_at <= next_followup, for every lead_status text and however far
\* the clock moves on between the handler's reads.
C5_CreatedActiveBeforeFollowup ==
    \A l \in leads : l.status = "Active" /\ l.created_at <= l.next_followup

C5_Witness ==
    \E l \in leads : /\ l.lead_status \notin LEAD_STATUSES
                     /\ l.next_followup > l.created_at + PolicyOffset(l.lead_status)

\* C6: at clock value now, calculate_next_followup returns now + 3 h for Hot,
\* now + 24 h for Warm, now + 72 h for Cold and now + 24 h for any other text,
\* the empty one included, and the call changes nothing else.
C6_FollowupPolicy ==
    /\ [](resp.op = "calc" => resp.value = resp.now + PolicyOffset(resp.lead_status))
    /\ [][(resp'.op = "calc" /\ resp' # resp) => UNCHANGED <<clock, leads, pc, loc>>]_vars

C6_Witness ==
    /\ resp.op = "calc" /\ resp.lead_status = "" /\ resp.now > 0
    /\ resp.value = resp.now + 24 * SecondsPerHour * TicksPerSec
    /\ leads # {}

\* C7 as stated: every stored next_followup equals created_at plus the offset
\* of the lead's lead_status.
C7_FollowupExactlyOffset ==
    \A l \in leads : l.next_followup = l.created_at + PolicyOffset(l.lead_status)

\* C7 amended: every stored next_followup is at least created_at plus the
\* offset of the lead's lead_status, and a lead added in a request during
\* which the clock does not advance has exactly that next_followup.
C7_FollowupAtLeastOffset ==
    /\ [](\A l \in leads : l.next_followup >= l.created_at + PolicyOffset(l.lead_status))
    /\ [][\A m \in leads' :
             (m.id \notin Ids(leads) /\ clock' = clock)
                => m.next_followup = m.created_at + PolicyOffset(m.lead_status)]_vars

C7_Witness ==
    /\ \E l \in leads : /\ l.lead_status = "Hot"
                        /\ l.next_followup > l.created_at + PolicyOffset("Hot")
    /\ \E l \in leads : /\ l.lead_status = "Hot"
                        /\ l.created_at % TicksPerSec # 0
                        /\ l.next_followup = l.created_at + PolicyOffset("Hot")

\* C8: every stored lead has a non-empty name, source, contact_method,
\* quote_status and lead_status, and its source, quote_status and lead_status
\* are members of their enumerated sets.
C8_StoredLeadsValid ==
    \A l \in leads :
        /\ l.name # "" /\ l.contact_method # ""
        /\ l.source \in SOURCES
        /\ l.quote_status \in QUOTE_STATUSES
        /\ l.lead_status \in LEAD_STATUSES

\* C9: no two stored leads share an id, and an add-lead request whose id is
\* already stored fails and leaves every stored lead as it was.
C9_IdsUnique ==
    /\ [](\A l \in leads : \A m \in leads : l.id = m.id => l = m)
    /\ [][(resp'.op = "create" /\ resp' # resp /\ resp'.id \in Ids(leads))
             => (resp'.ret = "False" /\ leads' = leads)]_vars

C9_Witness ==
    /\ resp.op = "create" /\ resp.err = "IntegrityError"
    /\ \E l \in leads : l.id = resp.id /\ l.created_at < clock

\* what the two front ends answer after a lead was saved
CreatedOutcomes == {"303 /", "Lead added successfully!"}

\* C10: an add-lead request whose insert failed is answered with something
\* other than the answer to a successful one, and an id collision is answered
\* as DuplicateId.
C10_FailedCreateSurfaced ==
    (resp.op = "create" /\ resp.ret = "False")
       => /\ resp.out \notin CreatedOutcomes
          /\ (resp.err = "IntegrityError" => resp.out = "DuplicateId")

\* the leads due for follow-up at time now, as the specification words it
DueIds(store, now) ==
    {l.id : l \in {x \in store : x.status = "Active" /\ x.next_followup <= now}}

\* C11: whenever the store answers, get_followup_leads returns exactly the
\* leads that are Active with next_followup <= now, now being the clock at
\* the call; Closed and Lost leads are never among them.
C11_FollowupDueExact ==
    [][(resp'.op = "followup" /\ resp' # resp /\ resp'.err = "")
          => /\ resp'.now = clock
             /\ {d.id : d \in resp'.result} = DueIds(leads, clock)
             /\ \A d \in resp'.result : d.status = "Active"]_vars

C11_Witness ==
    /\ resp.op = "followup" /\ resp.err = ""
    /\ \E l \in leads : /\ l.lead_status = "Hot" /\ l.status = "Active"
                        /\ resp.now >= l.created_at + 4 * SecondsPerHour * TicksPerSec
                        /\ l.id \in {d.id : d \in resp.result}
    /\ \E l \in leads : /\ l.status = "Closed" /\ l.next_followup <= resp.now
                        /\ l.id \notin {d.id : d \in resp.result}

\* C14: get_lead_counts returns as today_count the number of leads whose
\* created_at lies on the calendar day of the call and as yesterday_count the
\* number whose created_at lies on the day before.
C14_CountsByCalendarDay ==
    [][(resp'.op = "counts" /\ resp' # resp /\ resp'.err = "")
          => /\ resp'.today_count =
                  Cardinality({l \in leads : DayOf(l.created_at) = DayOf(clock)})
             /\ resp'.yesterday_count =
                  Cardinality({l \in leads : DayOf(l.created_at) = DayOf(clock) - 1})]_vars

\* C15: a read whose store call raised returns something other than what the
\* same read returns over an empty store.
C15_ReadFailureSurfaced ==
    resp.err # "" =>
        /\ resp.op = "followup" => resp.result # {}
        /\ resp.op = "all_leads" => resp.result # {}
        /\ resp.op = "counts" =>
              ~(/\ resp.today_count = 0 /\ resp.yesterday_count = 0
                /\ DOMAIN resp.status_counts = {}
                /\ DOMAIN resp.lead_status_counts = {})
        /\ resp.op = "ratio" => resp.value.num # 0

\* the leads a close ratio is about: those of the source, or all of them
InScope(store, source) ==
    IF source = NoSource THEN store ELSE {l \in store : l.source = source}

\* the fraction value equals closed / total * 100 over the leads in scope,
\* and 0 when there are none
IsCloseRatioOf(value, scope) ==
    IF scope = {}
    THEN value.num = 0
    ELSE /\ value.den > 0
         /\ value.num * Cardinality(scope)
               = 100 * Cardinality({l \in scope : l.status = "Closed"}) * value.den

\* C12: whenever the store answers, calculate_close_ratio returns 0 when no
\* lead is in scope and otherwise (Closed leads in scope) / (leads in scope)
\* * 100.
C12_CloseRatioExact ==
    [][(resp'.op = "ratio" /\ resp' # resp /\ resp'.err = "")
          => IsCloseRatioOf(resp'.value, InScope(leads, resp'.source))]_vars

C12_Witness ==
    /\ resp.op = "ratio" /\ resp.err = "" /\ resp.source = "Media Alpha"
    /\ resp.value.num = 50 * resp.value.den
    /\ Cardinality({l \in leads : l.source = "Media Alpha"}) = 2
    /\ \E l \in leads : l.source = "Media Alpha" /\ l.status = "Closed"
    /\ \E l \in leads : l.source = "Media Alpha" /\ l.status = "Active"

\* the sources that have a ratio of their own in the bundle
KPI_SOURCES == {"Media Alpha", "Smart Financial"}

\* C13: in the bundle of get_source_close_ratios, other is the close ratio
\* over every lead whose source is not Media Alpha or Smart Financial.
C13_OtherIsEveryOtherSource ==
    [][(resp'.op = "ratios" /\ resp' # resp /\ resp'.err = "")
          => /\ IsCloseRatioOf(resp'.media_alpha, InScope(leads, "Media Alpha"))
             /\ IsCloseRatioOf(resp'.smart_financial, InScope(leads, "Smart Financial"))
             /\ IsCloseRatioOf(resp'.other,
                               {l \in leads : l.source \notin KPI_SOURCES})]_vars

\* a step that hands an answer to a caller of create or update
Answers == (resp' # resp \/ pc' # pc) /\ resp'.op \in {"create", "update"}

\* C16: a step in which an add-lead or update-status call ends in a failure
\* outcome (store error at add, at query or at commit, or any other refusal)
\* leaves the stored leads exactly as they were.
C16_FailureLeavesStore ==
    [][(Answers /\ resp'.ret \notin SuccessRets) => leads' = leads]_vars

C16_Witness ==
    /\ resp.op = "update" /\ resp.err = "OperationalError"
    /\ \E l \in leads : l.id = resp.id /\ l.status = "Active"
    /\ \E w \in Workers : pc[w] = "idle" /\ loc[w] = NoLoc

\* C17: update_lead_status called with an id that no stored lead has answers
\* with a failure, adds no lead and changes no stored lead.
C17_UnknownIdIsNoOp ==
    [][(resp'.op = "update" /\ resp' # resp /\ resp'.id \notin Ids(leads))
          => (resp'.ret \notin SuccessRets /\ leads' = leads)]_vars

C17_Witness ==
    /\ resp.op = "update" /\ resp.err = "" /\ resp.id \notin Ids(leads)
    /\ resp.ret = "{success: False, error: Lead not found}"
    /\ leads # {}

\* C18: every stored lead stays in the store; a step changes at most the
\* status of a lead, and only as the commit of an update_lead_status call on
\* that lead's id with that target; only an add-lead request adds a lead.
C18_OnlyStatusChanges ==
    [][/\ \A l \in leads : \E m \in leads' :
             /\ m = [l EXCEPT !.status = m.status]
             /\ m.status # l.status
                   => /\ resp'.op = "update" /\ resp'.id = l.id
                      /\ resp'.ret \in SuccessRets
                      /\ \E w \in Workers :
                            /\ Commits(w) /\ loc[w].id = l.id
                            /\ m.status = loc[w].new_status
       /\ Cardinality(leads') # Cardinality(leads) => resp'.op = "create"]_vars

C18_Witness ==
    /\ Cardinality(leads) = 2
    /\ resp.op = "update" /\ resp.ret \in SuccessRets
    /\ \E l \in leads : l.id = resp.id /\ l.status = "Closed"
    /\ \E l \in leads : l.id # resp.id /\ l.status = "Active"

\* C19: every stored lead's quoted_price is absent or at least 0, whatever
\* an add-lead request carried.
C19_PriceNonNegative ==
    \A l \in leads : l.quoted_price = <<>> \/ l.quoted_price[1] >= 0

\* the fields of a stored lead the comparison of the front ends is about
Essence(store) ==
    {[id |-> l.id, status |-> l.status, created_at |-> l.created_at,
      next_followup |-> l.next_followup] : l \in store}

\* C20: given the same add-lead and update-status requests with the same
\* clock readings, the two front ends accept and reject the same requests and
\* hold the same leads, close ratios and follow-up-due sets.
C20_FrontEndsAgree ==
    /\ Essence(leads) = Essence(app_leads)
    /\ resp.op = "both" => (resp.flask = "True" <=> resp.streamlit = "True")
    /\ \A source \in RatioSources :
          calculate_close_ratio(leads, source, TRUE)
             = calculate_close_ratio(app_leads, source, TRUE)
    /\ DueIds(leads, clock) = DueIds(app_leads, clock)

\* the fixed answer when nothing is due
NOTHING_DUE == "No leads need follow-up at this time."

\* C21: the reminder has exactly one entry (name, temperature, due time) for
\* each lead of the due-leads sequence, in its order, and none besides; it is
\* the nothing-due message exactly when the sequence is empty; composing it
\* changes no stored lead.
C21_DigestMatchesDue ==
    [][(resp'.op = "reminder" /\ resp' # resp)
          => /\ Len(resp'.message.lines) = Len(resp'.due)
             /\ \A i \in 1..Len(resp'.due) :
                   /\ resp'.message.lines[i].name = resp'.due[i].name
                   /\ resp'.message.lines[i].lead_status = resp'.due[i].lead_status
                   /\ resp'.message.lines[i].next_followup = resp'.due[i].next_followup
             /\ (resp'.message.head = NOTHING_DUE) <=> (resp'.due = <<>>)
             /\ leads' = leads]_vars

C21_Witness ==
    /\ resp.op = "reminder" /\ resp.err = ""
    /\ Len(resp.due) = 2 /\ Len(resp.message.lines) = 2
    /\ resp.message.lines[1].name # resp.message.lines[2].name
    /\ resp.message.head # NOTHING_DUE

\* C22: every value calculate_close_ratio returns lies between 0 and 100,
\* also when other callers add and close leads between its two count
\* queries.
C22_RatioWithinBounds ==
    resp.op = "ratio" => (0 <= resp.value.num /\ resp.value.num <= 100 * resp.value.den)

\* the clock second a stored id was generated in
IdSecond(id) == id[2]

====
